---------------------------- MODULE Spec2Model ----------------------------
(***************************************************************************)
(* A model of twig-unused-css-finder: the template and stylesheet class    *)
(* extractors (src/src/extractors.ts), the per-file processing             *)
(* (src/src/fileProcessors.ts) and the pipeline of src/src/index.ts        *)
(* (clear, extract, write, flatten, diff).                                  *)
(*                                                                         *)
(* A JavaScript string is a sequence of one-character strings; a Set is a  *)
(* duplicate-free sequence in insertion order, as Array.from(set) lists it.*)
(***************************************************************************)
EXTENDS Integers, Sequences, FiniteSets, TLC

(***************************************************************************)
(* Characters and the String methods the code calls                        *)
(***************************************************************************)

\* The characters JavaScript's \s matches and trim() strips (those in use).
WS == {" ", "\t", "\n", "\r"}

\* The characters the regular expression atom . does not match.
LineTerminators == {"\n", "\r"}

Quotes == {"'", "\""}

Letters == {"a", "b", "c", "d", "e", "f", "g", "h", "i", "j", "k", "l", "m",
            "n", "o", "p", "q", "r", "s", "t", "u", "v", "w", "x", "y", "z",
            "A", "B", "C", "D", "E", "F", "G", "H", "I", "J", "K", "L", "M",
            "N", "O", "P", "Q", "R", "S", "T", "U", "V", "W", "X", "Y", "Z"}

Digits == {"0", "1", "2", "3", "4", "5", "6", "7", "8", "9"}

\* [_a-zA-Z]
NameStart == Letters \cup {"_"}

\* [_a-zA-Z0-9-]
NameChar == Letters \cup Digits \cup {"_", "-"}

Min(S) == CHOOSE m \in S : \A n \in S : m <= n

Range(q) == {q[i] : i \in 1..Len(q)}

NoDuplicates(q) == \A i, j \in 1..Len(q) : q[i] = q[j] => i = j

\* Set.prototype.add on a Set kept as its insertion-ordered sequence.
SetAdd(q, x) == IF x \in Range(q) THEN q ELSE Append(q, x)

RECURSIVE SetAddAll(_, _)
SetAddAll(q, xs) ==
  IF xs = <<>> THEN q ELSE SetAddAll(SetAdd(q, Head(xs)), Tail(xs))

RECURSIVE Flatten(_)
Flatten(qs) == IF qs = <<>> THEN <<>> ELSE Head(qs) \o Flatten(Tail(qs))

\* s.slice(i - 1) for a 1-based index i.
Drop(s, i) == SubSeq(s, i, Len(s))

\* Whether the literal p occurs in s at index i.
At(s, i, p) == i >= 1 /\ i + Len(p) - 1 <= Len(s) /\ SubSeq(s, i, i + Len(p) - 1) = p

startsWith(s, p) == At(s, 1, p)

endsWith(s, p) == At(s, Len(s) - Len(p) + 1, p)

\* The first index >= i whose character is in C, or Len(s) + 1 when none is.
FirstIn(s, i, C) ==
  LET S == {j \in i..Len(s) : s[j] \in C} IN IF S = {} THEN Len(s) + 1 ELSE Min(S)

\* The first index >= i whose character is not in C, or Len(s) + 1: the end
\* of the greedy run [C]* that starts at i.
FirstNotIn(s, i, C) ==
  LET S == {j \in i..Len(s) : s[j] \notin C} IN IF S = {} THEN Len(s) + 1 ELSE Min(S)

\* The first index >= i at which the literal p occurs, or 0.
IndexOf(s, i, p) ==
  LET S == {j \in i..Len(s) : At(s, j, p)} IN IF S = {} THEN 0 ELSE Min(S)

\* String.prototype.trim
trim(s) ==
  LET S == {j \in 1..Len(s) : s[j] \notin WS}
  IN  IF S = {} THEN <<>>
      ELSE SubSeq(s, Min(S), CHOOSE m \in S : \A n \in S : n <= m)

\* s.replace(/[C]/g, '')
RemoveChars(s, C) == SelectSeq(s, LAMBDA c : c \notin C)

\* s.slice(1, -1)
slice1(s) == IF Len(s) < 2 THEN <<>> ELSE SubSeq(s, 2, Len(s) - 1)

\* s.split(sep) for a one-character separator: the parts between the
\* separators, empty parts included.
RECURSIVE split(_, _)
split(s, sep) ==
  LET k == FirstIn(s, 1, {sep})
  IN  IF k > Len(s) THEN <<s>>
      ELSE <<SubSeq(s, 1, k - 1)>> \o split(Drop(s, k + 1), sep)

\* s.split(/\s+/): the parts between the maximal whitespace runs; leading or
\* trailing whitespace leaves an empty first or last part.
RECURSIVE splitWs(_)
splitWs(s) ==
  LET k == FirstIn(s, 1, WS)
  IN  IF k > Len(s) THEN <<s>>
      ELSE <<SubSeq(s, 1, k - 1)>> \o splitWs(Drop(s, FirstNotIn(s, k, WS)))

\* parts.join(sep)
RECURSIVE join(_, _)
join(parts, sep) ==
  IF parts = <<>> THEN <<>>
  ELSE IF Len(parts) = 1 THEN parts[1]
  ELSE parts[1] \o sep \o join(Tail(parts), sep)

\* s.match(/[Q]([^Q]+)[Q]/g) || [] for a class Q of delimiters: the matched
\* texts, delimiters included, left to right.  At a delimiter the greedy run
\* of non-delimiters must be non-empty and end at a delimiter; the search
\* resumes after the match.
RECURSIVE matchDelimited(_, _)
matchDelimited(s, Q) ==
  LET i == FirstIn(s, 1, Q)
      j == FirstIn(s, i + 1, Q)
  IN  IF i > Len(s) THEN <<>>
      ELSE IF j <= Len(s) /\ j > i + 1
           THEN <<SubSeq(s, i, j)>> \o matchDelimited(Drop(s, j + 1), Q)
           ELSE matchDelimited(Drop(s, i + 1), Q)

\* s.match(/['"]([^'"]+)['"]/g) || []
matchQuoted(s) == matchDelimited(s, Quotes)

\* s.match(/'([^']+)'/g) || []
matchSingleQuoted(s) == matchDelimited(s, {"'"})

\* The pieces of s under the global lazy pattern /open[\s\S]*?close/g: the
\* matches (m = TRUE) and the texts between them (m = FALSE), left to right.
\* A match runs from an occurrence of open to the first occurrence of close
\* that starts after it.
RECURSIVE lazyPieces(_, _, _)
lazyPieces(s, open, close) ==
  LET i == IndexOf(s, 1, open)
      j == IF i = 0 THEN 0 ELSE IndexOf(s, i + Len(open), close)
      e == j + Len(close) - 1
  IN  IF j = 0 THEN <<[m |-> FALSE, t |-> s]>>
      ELSE <<[m |-> FALSE, t |-> SubSeq(s, 1, i - 1)], [m |-> TRUE, t |-> SubSeq(s, i, e)]>>
           \o lazyPieces(Drop(s, e + 1), open, close)

\* The quoted literals of s with their quote characters removed:
\* (s.match(/['"]([^'"]+)['"]/g) || []).map((cls) => cls.replace(/['"]/g, ''))
literals(s) ==
  LET ms == matchQuoted(s) IN [k \in 1..Len(ms) |-> RemoveChars(ms[k], Quotes)]

(***************************************************************************)
(* extractClassesFromTemplate                                              *)
(***************************************************************************)

\* The first match at or after index from of
\*   /(?<=^|\s)NAME\s*=\s*(["'])((?:(?!\1).|\n)*)\1/
\* (classPattern for NAME = class, dynamicClassPattern for NAME = :class):
\* [found, value (group 2), end (the index of the closing quote)].  The value
\* is the greedy run of characters that are neither the opening quote nor a
\* line terminator other than \n, and the closing quote must follow it.
attrMatchAt(s, i, name) ==
  LET a == FirstNotIn(s, i + Len(name), WS)
      b == FirstNotIn(s, a + 1, WS)
      e == FirstIn(s, b + 1, {s[b]} \cup (LineTerminators \ {"\n"}))
  IN  IF /\ (i = 1 \/ s[i - 1] \in WS)
         /\ At(s, i, name)
         /\ a <= Len(s) /\ s[a] = "="
         /\ b <= Len(s) /\ s[b] \in Quotes
         /\ e <= Len(s) /\ s[e] = s[b]
      THEN [found |-> TRUE, value |-> SubSeq(s, b + 1, e - 1), end |-> e]
      ELSE [found |-> FALSE, value |-> <<>>, end |-> 0]

attrExec(s, from, name) ==
  LET S == {i \in from..Len(s) : attrMatchAt(s, i, name).found}
  IN  IF S = {} THEN [found |-> FALSE, value |-> <<>>, end |-> 0]
      ELSE attrMatchAt(s, Min(S), name)

\* Every value the global pattern matches, in order (the while/exec loop).
RECURSIVE attrValues(_, _, _)
attrValues(s, from, name) ==
  LET m == attrExec(s, from, name)
  IN  IF m.found THEN <<m.value>> \o attrValues(s, m.end + 1, name) ELSE <<>>

\* What one Twig construct {% ... %} adds: every whitespace-separated part of
\* each of its quoted literals, empty parts included (no filter in the code).
twigConstructClasses(twigConstruct) ==
  LET ls == literals(twigConstruct)
  IN  Flatten([k \in 1..Len(ls) |-> splitWs(ls[k])])

\* processTwigConstructs: [str |-> the class string with every construct
\* replaced by one space, classes |-> the set after the callback's adds].
processTwigConstructs(classString, classes) ==
  LET ps == lazyPieces(classString, <<"{", "%">>, <<"%", "}">>)
  IN  [str |-> Flatten([k \in 1..Len(ps) |-> IF ps[k].m THEN <<" ">> ELSE ps[k].t]),
       classes |-> SetAddAll(classes,
                     Flatten([k \in 1..Len(ps) |->
                                IF ps[k].m THEN twigConstructClasses(ps[k].t) ELSE <<>>]))]

\* interpolation.match(/\?[^:]+:/): a ? whose next : is at least two
\* characters further.
hasTernary(interpolation) ==
  \E i \in 1..Len(interpolation) :
     /\ interpolation[i] = "?"
     /\ LET c == FirstIn(interpolation, i + 1, {":"})
        IN  c <= Len(interpolation) /\ c > i + 1

\* The replacement the callback of processInterpolations returns for one
\* {{ ... }}: with a ternary, the literals of the first two parts of
\* split(':') only ([truthy, falsy] = ...), joined by a space.
interpolationReplacement(interpolation) ==
  IF hasTernary(interpolation)
  THEN LET parts == split(interpolation, ":")
           truthy == join(literals(parts[1]), <<" ">>)
           falsy == join(literals(parts[2]), <<" ">>)
       IN  truthy \o <<" ">> \o falsy
  ELSE join(literals(interpolation), <<" ">>)

processInterpolations(classString) ==
  LET ps == lazyPieces(classString, <<"{", "{">>, <<"}", "}">>)
  IN  Flatten([k \in 1..Len(ps) |->
                 IF ps[k].m THEN interpolationReplacement(ps[k].t) ELSE ps[k].t])

\* classString.replace(/\[[\s\S]*?\]/g, ' ')
removeSquareBrackets(classString) ==
  LET ps == lazyPieces(classString, <<"[">>, <<"]">>)
  IN  Flatten([k \in 1..Len(ps) |-> IF ps[k].m THEN <<" ">> ELSE ps[k].t])

addClassesToSet(classString, classes) ==
  LET parts == splitWs(classString)
  IN  SetAddAll(classes,
        SelectSeq([k \in 1..Len(parts) |-> trim(parts[k])], LAMBDA c : c # <<>>))

\* The body of the static loop for one matched attribute value.
staticClassString(classString, classes) ==
  LET r == processTwigConstructs(classString, classes)
  IN  addClassesToSet(removeSquareBrackets(processInterpolations(r.str)), r.classes)

RECURSIVE staticLoop(_, _)
staticLoop(values, classes) ==
  IF values = <<>> THEN classes
  ELSE staticLoop(Tail(values), staticClassString(Head(values), classes))

extractStaticClasses(content, classes) ==
  staticLoop(attrValues(content, 1, <<"c", "l", "a", "s", "s">>), classes)

\* processObjectSyntax: the interior is split on every comma; of each part
\* the text left of its first ':' is trimmed and, unless empty or starting
\* with '[', added with its quote and colon characters removed.
objectKey(pair) == trim(split(pair, ":")[1])

processObjectSyntax(classBinding, classes) ==
  LET keyValuePairs == split(trim(slice1(classBinding)), ",")
      keys == [k \in 1..Len(keyValuePairs) |-> objectKey(keyValuePairs[k])]
      kept == SelectSeq(keys, LAMBDA key : key # <<>> /\ ~startsWith(key, <<"[">>))
  IN  SetAddAll(classes,
        [k \in 1..Len(kept) |-> RemoveChars(kept[k], {"'", "\"", ":"})])

\* The lookahead (?![^{]*}) at a comma at index k: it fails the split when
\* the first brace after the comma is a closing one.
commaInsideBraces(s, k) ==
  LET n == FirstIn(s, k + 1, {"{", "}"}) IN n <= Len(s) /\ s[n] = "}"

\* s.split(/,(?![^{]*})/)
RECURSIVE splitArray(_)
splitArray(s) ==
  LET S == {k \in 1..Len(s) : s[k] = "," /\ ~commaInsideBraces(s, k)}
  IN  IF S = {} THEN <<s>>
      ELSE <<SubSeq(s, 1, Min(S) - 1)>> \o splitArray(Drop(s, Min(S) + 1))

\* What one element of the array form adds.
arrayItemClasses(rawItem) ==
  LET item == trim(rawItem)
  IN  IF \/ (startsWith(item, <<"'">>) /\ endsWith(item, <<"'">>))
         \/ (startsWith(item, <<"\"">>) /\ endsWith(item, <<"\"">>))
      THEN <<slice1(item)>>
      ELSE IF startsWith(item, <<"{">>)
           THEN LET objectClasses == matchSingleQuoted(item)
                IN  [k \in 1..Len(objectClasses) |-> slice1(objectClasses[k])]
           ELSE <<>>

processArraySyntax(classBinding, classes) ==
  LET classArray == splitArray(slice1(classBinding))
  IN  SetAddAll(classes,
        Flatten([k \in 1..Len(classArray) |-> arrayItemClasses(classArray[k])]))

processSimpleBinding(classBinding, classes) ==
  LET possibleClasses == literals(classBinding)
  IN  SetAddAll(classes, [k \in 1..Len(possibleClasses) |-> trim(possibleClasses[k])])

\* The body of the dynamic loop for one matched binding value (match[2],
\* classified as it stands, untrimmed).
dynamicClassBinding(classBinding, classes) ==
  IF startsWith(classBinding, <<"{">>) /\ endsWith(classBinding, <<"}">>)
  THEN processObjectSyntax(classBinding, classes)
  ELSE IF startsWith(classBinding, <<"[">>) /\ endsWith(classBinding, <<"]">>)
       THEN processArraySyntax(classBinding, classes)
       ELSE processSimpleBinding(classBinding, classes)

RECURSIVE dynamicLoop(_, _)
dynamicLoop(values, classes) ==
  IF values = <<>> THEN classes
  ELSE dynamicLoop(Tail(values), dynamicClassBinding(Head(values), classes))

extractDynamicClasses(content, classes) ==
  dynamicLoop(attrValues(content, 1, <<":", "c", "l", "a", "s", "s">>), classes)

\* Array.from(classes) after the static and then the dynamic pass.
extractClassesFromTemplate(content) ==
  extractDynamicClasses(content, extractStaticClasses(content, <<>>))

(***************************************************************************)
(* extractClassesFromCss                                                   *)
(***************************************************************************)

\* /^-?[_a-zA-Z]+[_a-zA-Z0-9-]*$/.test(className)
isValidClassName(className) ==
  LET k == IF Len(className) >= 1 /\ className[1] = "-" THEN 2 ELSE 1
  IN  /\ k <= Len(className)
      /\ className[k] \in NameStart
      /\ \A j \in (k + 1)..Len(className) : className[j] \in NameChar

\* The end of a match of /background(-image)?:\s*url\s*\([^)]*\)[^;]*;/ that
\* starts at index i (the index of its semicolon), or 0 when none starts there.
backgroundImageEnd(s, i) ==
  LET p == i + 10
      c == IF At(s, p, <<"-", "i", "m", "a", "g", "e">>) THEN p + 6 ELSE p
      a == FirstNotIn(s, c + 1, WS)
      b == FirstNotIn(s, a + 3, WS)
      r == FirstIn(s, b + 1, {")"})
      e == FirstIn(s, r + 1, {";"})
  IN  IF /\ At(s, i, <<"b", "a", "c", "k", "g", "r", "o", "u", "n", "d">>)
         /\ c <= Len(s) /\ s[c] = ":"
         /\ At(s, a, <<"u", "r", "l">>)
         /\ b <= Len(s) /\ s[b] = "("
         /\ r <= Len(s)
         /\ e <= Len(s)
      THEN e ELSE 0

\* content.replace(/background(-image)?:\s*url\s*\([^)]*\)[^;]*;/g, '')
RECURSIVE removeBackgroundImages(_)
removeBackgroundImages(content) ==
  LET S == {i \in 1..Len(content) : backgroundImageEnd(content, i) # 0}
  IN  IF S = {} THEN content
      ELSE SubSeq(content, 1, Min(S) - 1)
           \o removeBackgroundImages(Drop(content, backgroundImageEnd(content, Min(S)) + 1))

\* The end of a match of /url\s*\([^)]*\)/ that starts at index i (the index
\* of the first ')' after its '('), or 0.
urlFunctionEnd(s, i) ==
  LET b == FirstNotIn(s, i + 3, WS)
      r == FirstIn(s, b + 1, {")"})
  IN  IF /\ At(s, i, <<"u", "r", "l">>)
         /\ b <= Len(s) /\ s[b] = "("
         /\ r <= Len(s)
      THEN r ELSE 0

\* content.replace(/url\s*\([^)]*\)/g, '')
RECURSIVE removeUrlFunctions(_)
removeUrlFunctions(content) ==
  LET S == {i \in 1..Len(content) : urlFunctionEnd(content, i) # 0}
  IN  IF S = {} THEN content
      ELSE SubSeq(content, 1, Min(S) - 1)
           \o removeUrlFunctions(Drop(content, urlFunctionEnd(content, Min(S)) + 1))

\* classMatchEnd with the optional leading '-' of the pattern left out.
classMatchEndNoHyphen(s, i) ==
  IF s[i] = "." /\ i + 1 <= Len(s) /\ s[i + 1] \in NameStart
  THEN FirstNotIn(s, i + 1, NameChar) - 1 ELSE 0

\* The end of a match of /\.(-?[_a-zA-Z]+[_a-zA-Z0-9-]*)/ that starts at the
\* '.' at index i, or 0: an optional '-', one name-start character, and the
\* greedy run of name characters.
classMatchEnd(s, i) ==
  LET n == IF i + 1 <= Len(s) /\ s[i + 1] = "-" THEN i + 2 ELSE i + 1
  IN  IF s[i] = "." /\ n <= Len(s) /\ s[n] \in NameStart
      THEN FirstNotIn(s, n, NameChar) - 1 ELSE 0

\* The while/exec loop in mode 'classes' over content from index from:
\* processMatch adds match[1] when isValidClassName accepts it.
RECURSIVE classesLoop(_, _, _)
classesLoop(content, from, items) ==
  LET S == {i \in from..Len(content) : classMatchEnd(content, i) # 0}
  IN  IF S = {} THEN items
      ELSE LET e == classMatchEnd(content, Min(S))
               className == SubSeq(content, Min(S) + 1, e)
           IN  classesLoop(content, e + 1,
                 IF isValidClassName(className) THEN SetAdd(items, className) ELSE items)

\* The end of a match of /([^{}]+)(?=\s*\{)/ that starts at index i, or 0:
\* the greedy run of non-brace characters, which a '{' must follow.
selectorMatchEnd(s, i) ==
  LET e == FirstIn(s, i, {"{", "}"})
  IN  IF s[i] \notin {"{", "}"} /\ e <= Len(s) /\ s[e] = "{" THEN e - 1 ELSE 0

\* processMatch in mode 'selectors': the trimmed non-empty parts of split(',').
selectorParts(text) ==
  LET parts == split(text, ",")
  IN  SelectSeq([k \in 1..Len(parts) |-> trim(parts[k])], LAMBDA c : c # <<>>)

RECURSIVE selectorsLoop(_, _, _)
selectorsLoop(content, from, items) ==
  LET S == {i \in from..Len(content) : selectorMatchEnd(content, i) # 0}
  IN  IF S = {} THEN items
      ELSE LET e == selectorMatchEnd(content, Min(S))
           IN  selectorsLoop(content, e + 1,
                 SetAddAll(items, selectorParts(SubSeq(content, Min(S), e))))

\* A validateExtractOption that lets every value pass.
validateNothing(extractOnly) == TRUE

\* validateExtractOption: whether the option passes (it throws otherwise).
validateExtractOption(extractOnly) == extractOnly \in {"classes", "selectors"}

\* The parameter default { extractOnly = 'classes' }.
extractOnlyOrDefault(option) == IF option = "undefined" THEN "classes" ELSE option

\* extractClassesFromCss(content, { extractOnly: option }):
\* [threw |-> the call raised the invalid-option error, items |-> Array.from(items)].
extractClassesFromCss(content, option) ==
  LET extractOnly == extractOnlyOrDefault(option)
      stripped == removeUrlFunctions(removeBackgroundImages(content))
  IN  IF ~validateExtractOption(extractOnly) THEN [threw |-> TRUE, items |-> <<>>]
      ELSE [threw |-> FALSE,
            items |-> IF extractOnly = "classes"
                      THEN classesLoop(stripped, 1, <<>>)
                      ELSE selectorsLoop(stripped, 1, <<>>)]

(***************************************************************************)
(* Ignore patterns and the reconciliation (getUnusedCssClasses)            *)
(*                                                                         *)
(* A RegExp object is [anchored, text, flags] for /^text/flags or          *)
(* /text/flags with a literal text, and its mutable lastIndex (0-based) is *)
(* kept beside it, one per pattern object of the configured list.          *)
(***************************************************************************)

\* Whether the pattern matches somewhere in str: what "str is matched by the
\* pattern" means, whatever the state of the pattern object.
Matches(pattern, str) ==
  IF pattern.anchored THEN startsWith(str, pattern.text)
  ELSE IndexOf(str, 1, pattern.text) # 0

MatchesAny(patterns, str) == \E k \in 1..Len(patterns) : Matches(patterns[k], str)

\* RegExp.prototype.test (RegExpBuiltinExec): [result, lastIndex after the
\* call].  Without the g or y flag the search starts at 0 and lastIndex is
\* left alone.  With g or y it starts at lastIndex (y: matches only there); a
\* match sets lastIndex to its end, a failure resets it to 0.  ^ matches at
\* index 0 only (no m flag).
regexTest(pattern, lastIndex, str) ==
  LET stateful == pattern.flags \in {"g", "y"}
      start == IF stateful THEN lastIndex ELSE 0
      at == IF start > Len(str) THEN 0
            ELSE IF pattern.anchored \/ pattern.flags = "y"
                 THEN IF At(str, start + 1, pattern.text)
                         /\ (pattern.anchored => start = 0)
                      THEN start + 1 ELSE 0
                 ELSE IndexOf(str, start + 1, pattern.text)
  IN  [result |-> at # 0,
       lastIndex |-> IF ~stateful THEN lastIndex
                     ELSE IF at # 0 THEN at - 1 + Len(pattern.text) ELSE 0]

\* ignoredClassPatterns.some((pattern) => pattern.test(className)):
\* [result, lastIndex of every pattern after the call]; some() stops at the
\* first pattern whose test returns true.
RECURSIVE someTest(_, _, _, _)
someTest(patterns, lastIndex, className, k) ==
  IF k > Len(patterns) THEN [result |-> FALSE, lastIndex |-> lastIndex]
  ELSE LET r == regexTest(patterns[k], lastIndex[k], className)
           after == [lastIndex EXCEPT ![k] = r.lastIndex]
       IN  IF r.result THEN [result |-> TRUE, lastIndex |-> after]
           ELSE someTest(patterns, after, className, k + 1)

isIgnoredClass(className, patterns, lastIndex) == someTest(patterns, lastIndex, className, 1)

\* The filter without its !other.has(cls) test: only the ignore list decides.
RECURSIVE filterUnusedWithoutHas(_, _, _, _)
filterUnusedWithoutHas(list, other, patterns, lastIndex) ==
  IF list = <<>> THEN [kept |-> <<>>, lastIndex |-> lastIndex]
  ELSE LET r == isIgnoredClass(Head(list), patterns, lastIndex)
           rest == filterUnusedWithoutHas(Tail(list), other, patterns, r.lastIndex)
       IN  [kept |-> IF r.result THEN rest.kept ELSE <<Head(list)>> \o rest.kept,
            lastIndex |-> rest.lastIndex]

\* Array.from(list).filter((cls) => !other.has(cls) && !isIgnoredClass(cls, patterns)):
\* [kept, lastIndex]; isIgnoredClass is called only for a class not in other.
RECURSIVE filterUnused(_, _, _, _)
filterUnused(list, other, patterns, lastIndex) ==
  IF list = <<>> THEN [kept |-> <<>>, lastIndex |-> lastIndex]
  ELSE IF Head(list) \in Range(other)
       THEN filterUnused(Tail(list), other, patterns, lastIndex)
       ELSE LET r == isIgnoredClass(Head(list), patterns, lastIndex)
                rest == filterUnused(Tail(list), other, patterns, r.lastIndex)
            IN  [kept |-> IF r.result THEN rest.kept ELSE <<Head(list)>> \o rest.kept,
                 lastIndex |-> rest.lastIndex]

\* new Set<string>(array)
toSet(array) == SetAddAll(<<>>, array)

\* The diff of getUnusedCssClasses on the two parsed flattened lists:
\* [diffReport, lastIndex of every pattern afterwards].  The CSS side is
\* filtered first, then the template side, on the same pattern objects.
diffReportOf(templateClassesJson, cssClassesJson, patterns, lastIndex) ==
  LET templateClassesList == toSet(templateClassesJson)
      cssClassesList == toSet(cssClassesJson)
      c == filterUnused(cssClassesList, templateClassesList, patterns, lastIndex)
      u == filterUnused(templateClassesList, cssClassesList, patterns, c.lastIndex)
  IN  [diffReport |-> [cssClassesNotFoundInTemplates |-> c.kept,
                       templateClassesNotFoundInCss |-> u.kept],
       lastIndex |-> u.lastIndex]

(***************************************************************************)
(* processFiles and createFlattenedClasses                                 *)
(*                                                                         *)
(* An input file is [path, readable, content]; readable = FALSE stands for *)
(* a file readFileContent throws on.  ExtractedData.data is tagged with    *)
(* its JavaScript type: [type |-> "string", v |-> characters] or           *)
(* [type |-> "array", v |-> strings].  JSON.stringify followed by          *)
(* JSON.parse gives these values back unchanged, so a written file holds   *)
(* the value itself.                                                       *)
(***************************************************************************)

\* (classes) => classes.join(' ')
templateDataProcessor(classes) == [type |-> "string", v |-> join(classes, <<" ">>)]

\* (selectors) => selectors
cssDataProcessor(selectors) == [type |-> "array", v |-> selectors]

\* extractorFn(content) of processFiles: [threw, items].  kind is
\* "template" or "css", naming the extractorFn / dataProcessor pair the
\* two wrappers pass.
extractorFn(fileContent, kind) ==
  IF kind = "template"
  THEN [threw |-> FALSE, items |-> extractClassesFromTemplate(fileContent)]
  ELSE extractClassesFromCss(fileContent, "classes")

dataProcessor(items, kind) ==
  IF kind = "template" THEN templateDataProcessor(items) ELSE cssDataProcessor(items)

\* What the callback of files.map gives for a file whose extraction gave r.
\* isNull: the catch branch ran (readFileContent or extractorFn threw; it
\* logged the path and returned null); otherwise [data, path] is the record.
callbackResult(file, kind, r) ==
  [isNull |-> ~file.readable \/ r.threw,
   path |-> file.path,
   data |-> IF ~file.readable \/ r.threw
            THEN [type |-> "null", v |-> <<>>]
            ELSE dataProcessor(r.items, kind)]

\* The callback of files.map in processFiles for one file.
processOneFile(file, kind) == callbackResult(file, kind, extractorFn(file.content, kind))

\* .filter((item) => item !== null && item.data.length > 0)
keptByFilter(item) == ~item.isNull /\ Len(item.data.v) > 0

\* processFiles without the try/catch of its callback: the first failing
\* file's exception leaves processFiles and nothing is returned.
filterMappedUncaught(mapped) ==
  LET failed == SelectSeq(mapped, LAMBDA m : m.isNull)
  IN  [threw |-> failed # <<>>,
       records |-> IF failed # <<>> THEN <<>>
                   ELSE [k \in 1..Len(mapped) |-> [data |-> mapped[k].data, path |-> mapped[k].path]],
       logged |-> <<>>]

\* The array processFiles returns for the mapped callback results, and the
\* paths console.error reported, in file order.  threw: an exception left
\* processFiles (never: every file's failure is caught in the callback).
filterMapped(mapped) ==
  LET kept == SelectSeq(mapped, keptByFilter)
      failed == SelectSeq(mapped, LAMBDA m : m.isNull)
  IN  [threw |-> FALSE,
       records |-> [k \in 1..Len(kept) |-> [data |-> kept[k].data, path |-> kept[k].path]],
       logged |-> [k \in 1..Len(failed) |-> failed[k].path]]

processFiles(files, kind) ==
  filterMapped([k \in 1..Len(files) |-> processOneFile(files[k], kind)])

processTemplateFilesToExtractClasses(templateFiles) == processFiles(templateFiles, "template")

processCssFilesToExtractClasses(cssFiles) == processFiles(cssFiles, "css")

\* What items.forEach adds for one record: the parts of split(' ') of a
\* string, the elements of an array.
flattenedOfItem(item) ==
  IF item.data.type = "string" THEN split(item.data.v, " ") ELSE item.data.v

\* createFlattenedClasses with flattenedItems assigned anew for every record
\* instead of added to: only the last record's classes are left.
flattenLastItemOnly(items) ==
  IF items = <<>> THEN <<>> ELSE SetAddAll(<<>>, flattenedOfItem(items[Len(items)]))

\* Array.from(flattenedItems) in createFlattenedClasses.
flattenItems(items) ==
  SetAddAll(<<>>, Flatten([k \in 1..Len(items) |-> flattenedOfItem(items[k])]))

(***************************************************************************)
(* The run: initFn of src/src/index.ts, one step per call it makes         *)
(***************************************************************************)

VARIABLES
  pc,                    \* the call initFn (or a direct caller) makes next
  fatal,                 \* the call whose exception left initFn, or "none"
  options,               \* the artifact file names of TwigUnusedCssFinderOptions
  ignoredClassPatterns,  \* options.ignoredClassPatterns, the RegExp objects
  lastIndex,             \* the lastIndex of each of those objects
  twigTree,              \* twigDir: [exists, files]
  vueTree,               \* vueDir: [exists, files]
  cssTree,               \* cssDir: [exists, files]
  dir,                   \* uncssTempDir: [exists, locked, files]
  templateFiles,         \* initFn's local templateFiles
  cssFiles,              \* initFn's local cssFiles
  templateClasses,       \* initFn's local templateClasses
  cssSelectors,          \* initFn's local cssSelectors
  logged,                \* the paths console.error reported
  input,                 \* how the content of a direct extractor call was put together
  content,               \* the content argument of a direct extractor call
  option,                \* the extractOnly option of a direct extractor call
  extracted              \* what the direct extractor call returned

vars == <<pc, fatal, options, ignoredClassPatterns, lastIndex, twigTree, vueTree,
          cssTree, dir, templateFiles, cssFiles, templateClasses, cssSelectors,
          logged, input, content, option, extracted>>

\* The defaults of initFn's destructuring.
DefaultOptions ==
  [classesFromCssFileName |-> "all_classes_from_css.json",
   classesFromCssFlattenedFileName |-> "all_classes_from_css_flattened.json",
   classesFromTemplatesFileName |-> "all_classes_from_vue_and_twig.json",
   classesFromTemplatesFlattenedFileName |-> "all_classes_from_vue_and_twig_flattened.json",
   outputFile |-> "unused_css_classes_report.json"]

ArtifactNames(o) ==
  {o.classesFromCssFileName, o.classesFromCssFlattenedFileName,
   o.classesFromTemplatesFileName, o.classesFromTemplatesFlattenedFileName,
   o.outputFile}

\* An entry of uncssTempDir: run is "current" for a file this run wrote and
\* "earlier" for one that was there when the run began.
NoFile == [present |-> FALSE, run |-> "none", value |-> <<>>]

FileOf(run, value) == [present |-> TRUE, run |-> run, value |-> value]

EmptyFiles(o) == [n \in ArtifactNames(o) |-> NoFile]

\* fs.writeFileSync(path.join(uncssTempDir, name), JSON.stringify(value, null, 2))
writeFile(d, name, value) == [d EXCEPT !.files[name] = FileOf("current", value)]

\* clearOrCreateTempDir, when no call in it throws: an existing directory
\* loses every entry, a missing one is created.
clearOrCreateTempDir(d, o) == [exists |-> TRUE, locked |-> FALSE, files |-> EmptyFiles(o)]

\* The /^js-/ of initFn's default ignoredClassPatterns = [/^js-/].
JsPrefix(flags) == [anchored |-> TRUE, text |-> <<"j", "s", "-">>, flags |-> flags]

ClearOrCreateTempDir ==
  /\ pc = "clearOrCreateTempDir"
  /\ IF dir.exists /\ dir.locked
     THEN \* fs.unlinkSync throws on an entry it cannot remove (a
          \* subdirectory); the entries readdirSync listed before it are gone.
          /\ \E removed \in SUBSET {n \in DOMAIN dir.files : dir.files[n].present} :
                dir' = [dir EXCEPT !.files =
                          [n \in DOMAIN dir.files |-> IF n \in removed THEN NoFile ELSE dir.files[n]]]
          /\ pc' = "aborted"
          /\ fatal' = "clearOrCreateTempDir"
     ELSE /\ dir' = clearOrCreateTempDir(dir, options)
          /\ pc' = "findTemplateFiles"
          /\ UNCHANGED fatal
  /\ UNCHANGED <<options, ignoredClassPatterns, lastIndex, twigTree, vueTree, cssTree,
                 templateFiles, cssFiles, templateClasses, cssSelectors, logged,
                 input, content, option, extracted>>

\* [...findFiles(twigDir, twigPattern), ...findFiles(vueDir, vuePattern)];
\* readdirSync throws on a missing root.
FindTemplateFiles ==
  /\ pc = "findTemplateFiles"
  /\ IF twigTree.exists /\ vueTree.exists
     THEN /\ templateFiles' = twigTree.files \o vueTree.files
          /\ pc' = "processTemplateFiles"
          /\ UNCHANGED fatal
     ELSE /\ pc' = "aborted"
          /\ fatal' = "findFiles"
          /\ UNCHANGED templateFiles
  /\ UNCHANGED <<options, ignoredClassPatterns, lastIndex, twigTree, vueTree, cssTree,
                 dir, cssFiles, templateClasses, cssSelectors, logged,
                 input, content, option, extracted>>

ProcessTemplateFilesGiving(r) ==
  /\ pc = "processTemplateFiles"
  /\ IF r.threw
     THEN /\ pc' = "aborted"
          /\ fatal' = "processFiles"
          /\ UNCHANGED <<templateClasses, logged>>
     ELSE /\ templateClasses' = r.records
          /\ logged' = logged \o r.logged
          /\ pc' = "findCssFiles"
          /\ UNCHANGED fatal
  /\ UNCHANGED <<options, ignoredClassPatterns, lastIndex, twigTree, vueTree, cssTree,
                 dir, templateFiles, cssFiles, cssSelectors, input, content, option, extracted>>

ProcessTemplateFiles ==
  ProcessTemplateFilesGiving(processTemplateFilesToExtractClasses(templateFiles))

FindCssFiles ==
  /\ pc = "findCssFiles"
  /\ IF cssTree.exists
     THEN /\ cssFiles' = cssTree.files
          /\ pc' = "processCssFiles"
          /\ UNCHANGED fatal
     ELSE /\ pc' = "aborted"
          /\ fatal' = "findFiles"
          /\ UNCHANGED cssFiles
  /\ UNCHANGED <<options, ignoredClassPatterns, lastIndex, twigTree, vueTree, cssTree,
                 dir, templateFiles, templateClasses, cssSelectors, logged,
                 input, content, option, extracted>>

ProcessCssFilesGiving(r) ==
  /\ pc = "processCssFiles"
  /\ IF r.threw
     THEN /\ pc' = "aborted"
          /\ fatal' = "processFiles"
          /\ UNCHANGED <<cssSelectors, logged>>
     ELSE /\ cssSelectors' = r.records
          /\ logged' = logged \o r.logged
          /\ pc' = "writeTemplateClassesToFile"
          /\ UNCHANGED fatal
  /\ UNCHANGED <<options, ignoredClassPatterns, lastIndex, twigTree, vueTree, cssTree,
                 dir, templateFiles, cssFiles, templateClasses, input, content, option, extracted>>

ProcessCssFiles ==
  ProcessCssFilesGiving(processCssFilesToExtractClasses(cssFiles))

WriteTemplateClassesToFile ==
  /\ pc = "writeTemplateClassesToFile"
  /\ dir' = writeFile(dir, options.classesFromTemplatesFileName, templateClasses)
  /\ pc' = "writeCssSelectorsToFile"
  /\ UNCHANGED <<fatal, options, ignoredClassPatterns, lastIndex, twigTree, vueTree,
                 cssTree, templateFiles, cssFiles, templateClasses, cssSelectors,
                 logged, input, content, option, extracted>>

WriteCssSelectorsToFile ==
  /\ pc = "writeCssSelectorsToFile"
  /\ dir' = writeFile(dir, options.classesFromCssFileName, cssSelectors)
  /\ pc' = "flattenTemplateClasses"
  /\ UNCHANGED <<fatal, options, ignoredClassPatterns, lastIndex, twigTree, vueTree,
                 cssTree, templateFiles, cssFiles, templateClasses, cssSelectors,
                 logged, input, content, option, extracted>>

\* createFlattenedClasses leaving out the classes the ignore list matches.
createFlattenedClassesNotIgnored(d, inputFileName, outputFileName) ==
  writeFile(d, outputFileName,
            SelectSeq(flattenItems(d.files[inputFileName].value),
                      LAMBDA cls : ~MatchesAny(ignoredClassPatterns, cls)))

\* createFlattenedClasses(inputFileName, outputFileName, ...): what it reads
\* is what the directory holds under inputFileName.
createFlattenedClasses(d, inputFileName, outputFileName) ==
  writeFile(d, outputFileName, flattenItems(d.files[inputFileName].value))

\* createFlattenedClasses for the templates called before the stylesheet
\* records are written, whose write is skipped.
FlattenTemplateClassesEarly ==
  /\ pc = "writeCssSelectorsToFile"
  /\ dir' = createFlattenedClasses(dir, options.classesFromTemplatesFileName,
                                   options.classesFromTemplatesFlattenedFileName)
  /\ pc' = "flattenCssClasses"
  /\ UNCHANGED <<fatal, options, ignoredClassPatterns, lastIndex, twigTree, vueTree,
                 cssTree, templateFiles, cssFiles, templateClasses, cssSelectors,
                 logged, input, content, option, extracted>>

FlattenTemplateClasses ==
  /\ pc = "flattenTemplateClasses"
  /\ dir' = createFlattenedClasses(dir, options.classesFromTemplatesFileName,
                                   options.classesFromTemplatesFlattenedFileName)
  /\ pc' = "flattenCssClasses"
  /\ UNCHANGED <<fatal, options, ignoredClassPatterns, lastIndex, twigTree, vueTree,
                 cssTree, templateFiles, cssFiles, templateClasses, cssSelectors,
                 logged, input, content, option, extracted>>

FlattenCssClasses ==
  /\ pc = "flattenCssClasses"
  /\ dir' = createFlattenedClasses(dir, options.classesFromCssFileName,
                                   options.classesFromCssFlattenedFileName)
  /\ pc' = "getUnusedCssClasses"
  /\ UNCHANGED <<fatal, options, ignoredClassPatterns, lastIndex, twigTree, vueTree,
                 cssTree, templateFiles, cssFiles, templateClasses, cssSelectors,
                 logged, input, content, option, extracted>>

\* getUnusedCssClasses: [dir, lastIndex] after it read the two flattened
\* files, computed the diff and wrote the report.
getUnusedCssClasses(d, o, patterns, li) ==
  LET r == diffReportOf(d.files[o.classesFromTemplatesFlattenedFileName].value,
                        d.files[o.classesFromCssFlattenedFileName].value,
                        patterns, li)
  IN  [dir |-> writeFile(d, o.outputFile, r.diffReport), lastIndex |-> r.lastIndex]

GetUnusedCssClasses ==
  /\ pc = "getUnusedCssClasses"
  /\ LET r == getUnusedCssClasses(dir, options, ignoredClassPatterns, lastIndex)
     IN  dir' = r.dir /\ lastIndex' = r.lastIndex
  /\ pc' = "done"
  /\ UNCHANGED <<fatal, options, ignoredClassPatterns, twigTree, vueTree, cssTree,
                 templateFiles, cssFiles, templateClasses, cssSelectors, logged,
                 input, content, option, extracted>>

\* fs.writeFileSync throws (the directory was removed or is not writable, the
\* disk is full): nothing is written and the exception leaves initFn.
WriteFails ==
  /\ pc \in {"writeTemplateClassesToFile", "writeCssSelectorsToFile",
             "flattenTemplateClasses", "flattenCssClasses", "getUnusedCssClasses"}
  /\ pc' = "aborted"
  /\ fatal' = "writeFileSync"
  /\ UNCHANGED <<options, ignoredClassPatterns, lastIndex, twigTree, vueTree, cssTree,
                 dir, templateFiles, cssFiles, templateClasses, cssSelectors, logged,
                 input, content, option, extracted>>

(***************************************************************************)
(* Direct calls of the extractors on contents put together from parts      *)
(***************************************************************************)

\* The longest attribute value, object key list, array or URL argument the
\* direct calls are given.
MaxValueLen == 4

MaxParts == 2

AllSeqs(A, n) == UNION {[1..k -> A] : k \in 0..n}

NonEmptySeqs(A, n) == AllSeqs(A, n) \ {<<>>}

\* What the run's variables hold while an extractor is called directly.
NoRun ==
  /\ fatal = "none"
  /\ options = DefaultOptions
  /\ ignoredClassPatterns = <<>>
  /\ lastIndex = <<>>
  /\ twigTree = [exists |-> FALSE, files |-> <<>>]
  /\ vueTree = [exists |-> FALSE, files |-> <<>>]
  /\ cssTree = [exists |-> FALSE, files |-> <<>>]
  /\ dir = [exists |-> FALSE, locked |-> FALSE, files |-> EmptyFiles(DefaultOptions)]
  /\ templateFiles = <<>>
  /\ cssFiles = <<>>
  /\ templateClasses = <<>>
  /\ cssSelectors = <<>>
  /\ logged = <<>>

runVars == <<fatal, options, ignoredClassPatterns, lastIndex, twigTree, vueTree, cssTree,
             dir, templateFiles, cssFiles, templateClasses, cssSelectors, logged>>

NotCalled == [threw |-> FALSE, items |-> <<>>]

\* <div class="foo bar">
ScenarioStatic ==
  <<"<", "d", "i", "v", " ", "c", "l", "a", "s", "s", "=", "\"", "f", "o", "o", " ",
    "b", "a", "r", "\"", ">">>

\* :class="{ active: isOn, 'has-error': hasError }"
ScenarioObject ==
  <<":", "c", "l", "a", "s", "s", "=", "\"", "{", " ", "a", "c", "t", "i", "v", "e", ":",
    " ", "i", "s", "O", "n", ",", " ", "'", "h", "a", "s", "-", "e", "r", "r", "o", "r",
    "'", ":", " ", "h", "a", "s", "E", "r", "r", "o", "r", " ", "}", "\"">>

\* :class="['base', isActive ? 'active' : 'inactive']"
ScenarioArray ==
  <<":", "c", "l", "a", "s", "s", "=", "\"", "[", "'", "b", "a", "s", "e", "'", ",", " ",
    "i", "s", "A", "c", "t", "i", "v", "e", " ", "?", " ", "'", "a", "c", "t", "i", "v",
    "e", "'", " ", ":", " ", "'", "i", "n", "a", "c", "t", "i", "v", "e", "'", "]", "\"">>

Word(family) ==
  IF family \in {"static", "twig", "interp"}
  THEN <<"c", "l", "a", "s", "s">> ELSE <<":", "c", "l", "a", "s", "s">>

\* The characters of static attribute values: letters, and the whitespace a
\* value spanning lines holds (LF and CR LF line ends).
StaticChars == {"a", "b", "/", " ", "\n", "\r"}

\* Object keys (bare, quoted, empty quoted, computed) and value expressions
\* (a name, a call with two arguments).
ObjectKeys ==
  {<<"o", "n">>, <<"'", "a", "-", "b", "'">>, <<"'", "'">>, <<"[", "k", "]">>}

ObjectValues == {<<"x">>, <<"f", "(", "y", ",", " ", "z", ")">>}

\* Array elements: a quoted string, an empty quoted string, a ternary.
ArrayElements ==
  {<<"'", "b", "'">>, <<"'", "'">>,
   <<"c", " ", "?", " ", "'", "o", "n", "'", " ", ":", " ", "'", "o", "f", "f", "'">>}

\* Bare expressions.
Expressions ==
  {<<"c", " ", "?", " ", "'", " ", "'", " ", ":", " ", "'", "o", "n", "'">>,
   <<"c", " ", "?", " ", "'", "o", "n", " ", "'", " ", ":", " ", "'", "'">>,
   <<"'", "o", "n", "'">>,
   <<"c", " ", "?", " ", "'", "o", "n", " ", "x", "'", " ", ":", " ", "'", "o", "n", "'">>}

\* The text of a quoted literal inside a Twig construct.
TwigLiterals == NonEmptySeqs({"c", " "}, 2)

\* A direct call's content, by family:
\*   text    the value as it stands
\*   static  PREFIX class=Q value Q
\*   twig    class="a {% if x == 'value' %}b{% endif %}"
\*   object  :class="{ key: val, key: val }"     (parts: <<key, val>>)
\*   array   :class="[elem, elem]"               (parts: <<elem>>)
\*   expr    :class="value"
\*   interp  class="a {{ c ? 'lit' : c ? 'lit' : 'lit' }}"   (parts: <<lit>>)
\*   padded  :class=" value "     (value: an object, array or bare binding)
objectText(parts) ==
  <<"{", " ">>
  \o join([k \in 1..Len(parts) |-> parts[k][1] \o <<":", " ">> \o parts[k][2]], <<",", " ">>)
  \o <<" ", "}">>

arrayText(parts) ==
  <<"[">> \o join([k \in 1..Len(parts) |-> parts[k][1]], <<",", " ">>) \o <<"]">>

twigText(literal) ==
  <<"a", " ", "{", "%", " ", "i", "f", " ", "x", " ", "=", "=", " ", "'">> \o literal
  \o <<"'", " ", "%", "}", "b", "{", "%", " ", "e", "n", "d", "i", "f", " ", "%", "}">>

\* The literals of an interpolation: plain, with a ':' inside, of two tokens.
InterpLiterals == {<<"o", "n">>, <<"m", "d", ":", "o">>, <<"x", " ", "y">>}

\* One literal stands alone; more are the branches of a chained ternary.
interpText(parts) ==
  <<"a", " ", "{", "{", " ">>
  \o Flatten([k \in 1..Len(parts) |->
                IF k < Len(parts)
                THEN <<"c", " ", "?", " ", "'">> \o parts[k][1] \o <<"'", " ", ":", " ">>
                ELSE <<"'">> \o parts[k][1] \o <<"'">>])
  \o <<" ", "}", "}">>

AttributeValue(in) ==
  IF in.family = "object" THEN objectText(in.parts)
  ELSE IF in.family = "interp" THEN interpText(in.parts)
  ELSE IF in.family = "padded" THEN <<" ">> \o in.value \o <<" ">>
  ELSE IF in.family = "array" THEN arrayText(in.parts)
  ELSE IF in.family = "twig" THEN twigText(in.value)
  ELSE in.value

Render(in) ==
  IF in.family = "text" THEN in.value
  ELSE in.prefix \o Word(in.family) \o <<"=">> \o <<in.quote>> \o AttributeValue(in)
       \o <<in.quote>>

In(family, prefix, quote, value, parts) ==
  [family |-> family, prefix |-> prefix, quote |-> quote, value |-> value, parts |-> parts]

\* The binding values that are written with whitespace around them.
BindingValues ==
  {objectText(<<p>>) : p \in ObjectKeys \X ObjectValues}
  \cup {arrayText(<<<<e>>>>) : e \in ArrayElements}
  \cup Expressions

TemplateInputs ==
  {In("text", <<>>, "\"", v, <<>>) : v \in {ScenarioStatic, ScenarioObject, ScenarioArray}}
  \cup {In("static", p, q, v, <<>>) :
          p \in {<<>>, <<"<", "a", " ">>}, q \in Quotes, v \in AllSeqs(StaticChars, MaxValueLen)}
  \cup {In("twig", <<>>, "\"", v, <<>>) : v \in TwigLiterals}
  \cup {In("object", <<>>, "\"", <<>>, ps) :
          ps \in NonEmptySeqs(ObjectKeys \X ObjectValues, MaxParts)}
  \cup {In("array", <<>>, "\"", <<>>, ps) :
          ps \in NonEmptySeqs({<<e>> : e \in ArrayElements}, MaxParts)}
  \cup {In("expr", <<>>, "\"", v, <<>>) : v \in Expressions}
  \cup {In("padded", <<>>, "\"", v, <<>>) : v \in BindingValues}
  \cup {In("interp", <<>>, "\"", <<>>, ps) :
          ps \in NonEmptySeqs({<<l>> : l \in InterpLiterals}, MaxParts + 1)}

InitTemplate ==
  /\ pc = "extractClassesFromTemplate"
  /\ NoRun
  /\ input \in TemplateInputs
  /\ content = Render(input)
  /\ option = "undefined"
  /\ extracted = NotCalled

ExtractClassesFromTemplate ==
  /\ pc = "extractClassesFromTemplate"
  /\ extracted' = [threw |-> FALSE, items |-> extractClassesFromTemplate(content)]
  /\ pc' = "returned"
  /\ UNCHANGED <<runVars, input, content, option>>

NextTemplate == ExtractClassesFromTemplate

SpecTemplate == InitTemplate /\ [][NextTemplate]_vars

(***************************************************************************)
(* Claims about extractClassesFromTemplate (checked under SpecTemplate)    *)
(***************************************************************************)

Returned == pc = "returned"

Classes == Range(extracted.items)

Str_base == <<"b", "a", "s", "e">>

Str_active == <<"a", "c", "t", "i", "v", "e">>

Str_inactive == <<"i", "n", "a", "c", "t", "i", "v", "e">>

Str_has_error == <<"h", "a", "s", "-", "e", "r", "r", "o", "r">>

Str_foo == <<"f", "o", "o">>

Str_bar == <<"b", "a", "r">>

\* The quoted string literals of the elements of an array binding: of a
\* quoted element its content, of a ternary element both branch literals.
ElementLiterals(parts) == UNION {Range(literals(parts[k][1])) : k \in 1..Len(parts)}

\* C3: for a :class binding in array form the extractor returns every quoted
\* string element and the quoted literals of both branches of a ternary
\* element; :class="['base', isActive ? 'active' : 'inactive']" yields
\* exactly {base, active, inactive}.
C3_ArrayKeepsTernaryBranches ==
  Returned =>
    /\ content = ScenarioArray => Classes = {Str_base, Str_active, Str_inactive}
    /\ (input.family = "array" /\ \A k \in 1..Len(input.parts) : input.parts[k][1] # <<"'", "'">>)
         => Classes = ElementLiterals(input.parts)

\* The keys of the top-level pairs that do not begin with '[', trimmed and
\* with quote and colon characters removed.
TopLevelKeys(parts) ==
  {RemoveChars(trim(parts[k][1]), {"'", "\"", ":"}) :
     k \in {j \in 1..Len(parts) : parts[j][1][1] # "["}}

\* C4: for a :class binding in object form the extractor adds exactly the
\* keys of the top-level key: value pairs, skipping keys that begin with
\* '['; a comma nested inside a value expression starts no new pair and
\* contributes no class; the scenario yields exactly {active, has-error}.
C4_ObjectKeysOfTopLevelPairs ==
  Returned =>
    /\ content = ScenarioObject => Classes = {Str_active, Str_has_error}
    /\ input.family = "object" => Classes = TopLevelKeys(input.parts)

\* The non-empty whitespace-separated tokens of a value.
Tokens(v) ==
  {SubSeq(v, i, j) : <<i, j>> \in
     {<<a, b>> \in (1..Len(v)) \X (1..Len(v)) :
        /\ a <= b
        /\ \A k \in a..b : v[k] \notin WS
        /\ (a = 1 \/ v[a - 1] \in WS)
        /\ (b = Len(v) \/ v[b + 1] \in WS)}}

\* C5: for a static class attribute whose value holds no template-engine
\* construct, no interpolation and no square bracket, the extractor returns
\* exactly the non-empty whitespace-separated tokens of the value;
\* <div class="foo bar"> yields {foo, bar}.
C5_StaticTokens ==
  Returned =>
    /\ content = ScenarioStatic => Classes = {Str_foo, Str_bar}
    /\ input.family = "static" => Classes = Tokens(input.value)

\* C8: no extractor call returns the empty string as a class.
C8_NoEmptyClass == Returned => <<>> \notin Classes

(***************************************************************************)
(* Direct calls of extractClassesFromCss                                   *)
(***************************************************************************)

\* .btn { color: red; } .btn-primary, .btn-secondary { color: blue; }
ScenarioCss ==
  <<".", "b", "t", "n", " ", "{", " ", "c", "o", "l", "o", "r", ":", " ", "r", "e", "d",
    ";", " ", "}", " ", ".", "b", "t", "n", "-", "p", "r", "i", "m", "a", "r", "y", ",",
    " ", ".", "b", "t", "n", "-", "s", "e", "c", "o", "n", "d", "a", "r", "y", " ", "{",
    " ", "c", "o", "l", "o", "r", ":", " ", "b", "l", "u", "e", ";", " ", "}">>

\* .icon { background: url(icon.png) no-repeat; }
ScenarioUrl ==
  <<".", "i", "c", "o", "n", " ", "{", " ", "b", "a", "c", "k", "g", "r", "o", "u", "n",
    "d", ":", " ", "u", "r", "l", "(", "i", "c", "o", "n", ".", "p", "n", "g", ")", " ",
    "n", "o", "-", "r", "e", "p", "e", "a", "t", ";", " ", "}">>

\* The characters of the short stylesheets: what a class token is made of.
CssChars == {".", "-", "a", "1", "_", " "}

\* The characters of a URL: a letter no other part of the stylesheet holds,
\* the dot of a file extension, and (inside quotes only) a parenthesis.
UrlChars == {"x", "."}

QuotedUrlChars == UrlChars \cup {")"}

Properties ==
  {<<"b", "a", "c", "k", "g", "r", "o", "u", "n", "d">>,
   <<"b", "a", "c", "k", "g", "r", "o", "u", "n", "d", "-", "i", "m", "a", "g", "e">>,
   <<"c", "o", "n", "t", "e", "n", "t">>}

\* A stylesheet of the url family:
\*   .i{PROPERTY:BEFORE url(Q value Q)TERMINATOR}.t{a:b;}
\* parts = <<PROPERTY, BEFORE, TERMINATOR>>, quote = Q ("" for none).
urlText(in) ==
  <<".", "i", "{">> \o in.parts[1] \o <<":">> \o in.parts[2] \o <<"u", "r", "l", "(">>
  \o (IF in.quote = "" THEN <<>> ELSE <<in.quote>>) \o in.value
  \o (IF in.quote = "" THEN <<>> ELSE <<in.quote>>) \o <<")">> \o in.parts[3]
  \o <<"}", ".", "t", "{", "a", ":", "b", ";", "}">>

RenderCss(in) == IF in.family = "url" THEN urlText(in) ELSE in.value

UrlParts == Properties \X {<<" ">>, <<" ", "r", "e", "d", " ">>} \X {<<";">>, <<>>}

CssInputs ==
  {In("text", <<>>, "", v, <<>>) : v \in {ScenarioCss, ScenarioUrl}}
  \cup {In("chars", <<>>, "", v, <<>>) : v \in AllSeqs(CssChars, MaxValueLen)}
  \cup {In("url", <<>>, "", v, ps) : v \in NonEmptySeqs(UrlChars, MaxValueLen - 1), ps \in UrlParts}
  \cup {In("url", <<>>, q, v, ps) :
          q \in Quotes, v \in NonEmptySeqs(QuotedUrlChars, MaxValueLen - 1), ps \in UrlParts}

\* The extractOnly values a caller passes: the two modes, none (the
\* default applies), and one that is neither mode.
ExtractOnlyValues == {"classes", "selectors", "undefined", "ids"}

InitCss ==
  /\ pc = "extractClassesFromCss"
  /\ NoRun
  /\ input \in CssInputs
  /\ content = RenderCss(input)
  /\ option \in IF input.family = "text" THEN ExtractOnlyValues ELSE {"classes"}
  /\ extracted = NotCalled

ExtractClassesFromCss ==
  /\ pc = "extractClassesFromCss"
  /\ extracted' = extractClassesFromCss(content, option)
  /\ pc' = "returned"
  /\ UNCHANGED <<runVars, input, content, option>>

NextCss == ExtractClassesFromCss

SpecCss == InitCss /\ [][NextCss]_vars

(***************************************************************************)
(* Claims about extractClassesFromCss (checked under SpecCss)              *)
(***************************************************************************)

ClassesMode == option \in {"classes", "undefined"}

\* An identifier of the form -?[A-Za-z_][A-Za-z0-9_-]*.
IsIdentifier(c) ==
  LET body == IF c # <<>> /\ Head(c) = "-" THEN Tail(c) ELSE c
  IN  /\ body # <<>>
      /\ Head(body) \in Letters \cup {"_"}
      /\ Range(body) \subseteq Letters \cup Digits \cup {"_", "-"}

\* The identifiers that follow a '.' in s: for each '.', the text after it up
\* to where identifier characters stop, when that text is an identifier.
DottedIdentifiers(s) ==
  {SubSeq(s, i + 1, j) : <<i, j>> \in
     {<<a, b>> \in (1..Len(s)) \X (1..Len(s)) :
        /\ s[a] = "." /\ a < b
        /\ IsIdentifier(SubSeq(s, a + 1, b))
        /\ (b = Len(s) \/ s[b + 1] \notin Letters \cup Digits \cup {"_", "-"})}}

UrlStripped(s) == removeUrlFunctions(removeBackgroundImages(s))

Str_btn == <<"b", "t", "n">>

Str_btn_primary == <<"b", "t", "n", "-", "p", "r", "i", "m", "a", "r", "y">>

Str_btn_secondary == <<"b", "t", "n", "-", "s", "e", "c", "o", "n", "d", "a", "r", "y">>

Str_icon == <<"i", "c", "o", "n">>

\* C6: in mode 'classes' extractClassesFromCss returns, without duplicates
\* and with the dot stripped, exactly the identifiers -?[A-Za-z_][A-Za-z0-9_-]*
\* that follow a '.' in the URL-stripped content, every returned item
\* satisfies isValidClassName, and the scenario stylesheet yields
\* {btn, btn-primary, btn-secondary}.
C6_ClassesAreDottedIdentifiers ==
  (Returned /\ ClassesMode) =>
    /\ ~extracted.threw
    /\ NoDuplicates(extracted.items)
    /\ Classes = DottedIdentifiers(UrlStripped(content))
    /\ \A c \in Classes : isValidClassName(c)
    /\ content = ScenarioCss => Classes = {Str_btn, Str_btn_primary, Str_btn_secondary}

\* A call in mode 'classes' on a stylesheet with two dots returned one class,
\* with a leading '-', and nothing for the other dot.
C6_Witness ==
  /\ Returned /\ ClassesMode
  /\ Cardinality({i \in 1..Len(content) : content[i] = "."}) = 2
  /\ Len(extracted.items) = 1
  /\ \E c \in Classes : Head(c) = "-"

\* C7: in mode 'classes' no returned token originates from the argument of
\* a url(...) reference, wherever the url stands in its declaration and
\* whether or not it is quoted; the scenario yields {icon} only.
C7_NoTokenFromUrl ==
  (Returned /\ ClassesMode) =>
    /\ content = ScenarioUrl => Classes = {Str_icon}
    /\ input.family = "url" => \A c \in Classes : "x" \notin Range(c)

(***************************************************************************)
(* The run's inputs and its specification                                  *)
(***************************************************************************)

\* The most input files (twig, vue and css together) of a run.
MaxFiles == 3

\* <a class="foo js-x">
TplPlain ==
  <<"<", "a", " ", "c", "l", "a", "s", "s", "=", "\"", "f", "o", "o", " ", "j", "s", "-",
    "x", "\"", ">">>

\* <a :class="c ? 'bar on' : 'bar'">
TplSpaced ==
  <<"<", "a", " ", ":", "c", "l", "a", "s", "s", "=", "\"", "c", " ", "?", " ", "'", "b",
    "a", "r", " ", "o", "n", "'", " ", ":", " ", "'", "b", "a", "r", "'", "\"", ">">>

\* <p>
TplNone == <<"<", "p", ">">>

\* .foo,.bar{}
CssFoo == <<".", "f", "o", "o", ",", ".", "b", "a", "r", "{", "}">>

\* .js-x .baz{}
CssJs == <<".", "j", "s", "-", "x", " ", ".", "b", "a", "z", "{", "}">>

\* p{}
CssNone == <<"p", "{", "}">>

Contents(kind) ==
  IF kind = "template" THEN {TplPlain, TplSpaced, TplNone} ELSE {CssFoo, CssJs, CssNone}

\* A file of a tree: readable with one of the contents, or unreadable.
FileChoices(kind) ==
  {[readable |-> TRUE, content |-> c] : c \in Contents(kind)}
  \cup {[readable |-> FALSE, content |-> <<>>]}

\* findFiles(root, pattern) on an existing root with these files, in
\* readdirSync's order; the path of a file is its root and position.
TreeOf(root, choices) ==
  [exists |-> TRUE,
   files |-> [k \in 1..Len(choices) |->
                [path |-> <<root, k>>, readable |-> choices[k].readable,
                 content |-> choices[k].content]]]

MissingTree == [exists |-> FALSE, files |-> <<>>]

Trees(root, kind, n) ==
  {TreeOf(root, cs) : cs \in [1..n -> FileChoices(kind)]}
  \cup (IF n = 0 THEN {MissingTree} ELSE {})

EarlierReport ==
  [cssClassesNotFoundInTemplates |-> <<<<"o", "l", "d">>>>,
   templateClassesNotFoundInCss |-> <<>>]

\* uncssTempDir when the run begins: missing, empty, holding the report of
\* an earlier run, or holding it beside a subdirectory.
InitialDirs ==
  {[exists |-> FALSE, locked |-> FALSE, files |-> EmptyFiles(DefaultOptions)],
   [exists |-> TRUE, locked |-> FALSE, files |-> EmptyFiles(DefaultOptions)]}
  \cup {[exists |-> TRUE, locked |-> l,
         files |-> [EmptyFiles(DefaultOptions) EXCEPT
                      ![DefaultOptions.outputFile] = FileOf("earlier", EarlierReport)]] :
          l \in BOOLEAN}

\* The ignore lists of a run: none, initFn's default [/^js-/], and the same
\* pattern written with the g flag.
RunIgnoreLists == {<<>>, <<JsPrefix("")>>, <<JsPrefix("g")>>}

NoDirectCall ==
  /\ input = In("none", <<>>, "", <<>>, <<>>)
  /\ content = <<>>
  /\ option = "undefined"
  /\ extracted = NotCalled

Init ==
  /\ pc = "clearOrCreateTempDir"
  /\ fatal = "none"
  /\ options = DefaultOptions
  /\ ignoredClassPatterns \in RunIgnoreLists
  /\ lastIndex = [k \in 1..Len(ignoredClassPatterns) |-> 0]
  /\ \E nt \in 0..MaxFiles : \E nv \in 0..(MaxFiles - nt) : \E nc \in 0..(MaxFiles - nt - nv) :
        /\ twigTree \in Trees("twig", "template", nt)
        /\ vueTree \in Trees("vue", "template", nv)
        /\ cssTree \in Trees("css", "css", nc)
  /\ dir \in InitialDirs
  /\ templateFiles = <<>>
  /\ cssFiles = <<>>
  /\ templateClasses = <<>>
  /\ cssSelectors = <<>>
  /\ logged = <<>>
  /\ NoDirectCall

Next ==
  \/ ClearOrCreateTempDir
  \/ FindTemplateFiles
  \/ ProcessTemplateFiles
  \/ FindCssFiles
  \/ ProcessCssFiles
  \/ WriteTemplateClassesToFile
  \/ WriteCssSelectorsToFile
  \/ FlattenTemplateClasses
  \/ FlattenCssClasses
  \/ GetUnusedCssClasses
  \/ WriteFails

Spec == Init /\ [][Next]_vars

(***************************************************************************)
(* Claims about processFiles and flattening in a run (checked under Spec)  *)
(***************************************************************************)

StepsAfterTemplates ==
  {"findCssFiles", "processCssFiles", "writeTemplateClassesToFile", "writeCssSelectorsToFile",
   "flattenTemplateClasses", "flattenCssClasses", "getUnusedCssClasses", "done"}

StepsAfterCss == StepsAfterTemplates \ {"findCssFiles", "processCssFiles"}

TemplatesProcessed == pc \in StepsAfterTemplates \/ fatal = "writeFileSync"

CssProcessed == pc \in StepsAfterCss \/ fatal = "writeFileSync"

\* The records of the files that were read and gave non-empty data, in the
\* order of the file list.
RecordsOfSucceeded(files, kind) ==
  LET ok == SelectSeq(files, LAMBDA f : f.readable /\ ~extractorFn(f.content, kind).threw)
      all == [k \in 1..Len(ok) |->
                [data |-> dataProcessor(extractorFn(ok[k].content, kind).items, kind),
                 path |-> ok[k].path]]
  IN  SelectSeq(all, LAMBDA r : Len(r.data.v) > 0)

PathsOfFailed(files) ==
  LET bad == SelectSeq(files, LAMBDA f : ~f.readable)
  IN  [k \in 1..Len(bad) |-> bad[k].path]

Written(name) == dir.files[name].present /\ dir.files[name].run = "current"

\* C9: a file whose read or extraction throws is logged and gives no record,
\* the failure never leaves processFiles, the other files are still
\* processed with their records in input order, and a run that reaches its
\* end has written those records, their flattened sets and the report
\* computed from them.
C9_FailuresAreSkipped ==
  /\ fatal # "processFiles"
  /\ TemplatesProcessed =>
       /\ templateClasses = RecordsOfSucceeded(templateFiles, "template")
       /\ IF CssProcessed
          THEN logged = PathsOfFailed(templateFiles) \o PathsOfFailed(cssFiles)
          ELSE logged = PathsOfFailed(templateFiles)
  /\ CssProcessed => cssSelectors = RecordsOfSucceeded(cssFiles, "css")
  /\ pc = "done" =>
       /\ \A n \in ArtifactNames(options) : Written(n)
       /\ dir.files[options.classesFromTemplatesFileName].value = templateClasses
       /\ dir.files[options.classesFromCssFileName].value = cssSelectors
       /\ dir.files[options.classesFromTemplatesFlattenedFileName].value
            = flattenItems(templateClasses)
       /\ dir.files[options.classesFromCssFlattenedFileName].value
            = flattenItems(cssSelectors)
       /\ \E li \in [1..Len(ignoredClassPatterns) -> {0}] :
             dir.files[options.outputFile].value
               = diffReportOf(flattenItems(templateClasses), flattenItems(cssSelectors),
                              ignoredClassPatterns, li).diffReport

\* A finished run whose template list held an unreadable file before a
\* readable one that has a record, and whose stylesheet list held an
\* unreadable file too.
C9_Witness ==
  /\ pc = "done"
  /\ \E i, j \in 1..Len(templateFiles) :
        /\ i < j
        /\ ~templateFiles[i].readable
        /\ templateFiles[i].path \in Range(logged)
        /\ \E k \in 1..Len(templateClasses) : templateClasses[k].path = templateFiles[j].path
  /\ \E i \in 1..Len(cssFiles) : ~cssFiles[i].readable
  /\ dir.files[options.outputFile].value.templateClassesNotFoundInCss # <<>>

RecordedFiles(files, records) ==
  {files[i] : i \in {i \in 1..Len(files) : \E k \in 1..Len(records) : records[k].path = files[i].path}}

\* C10: the flattened set createFlattenedClasses writes holds exactly the
\* strings the extractor returned as a class for at least one recorded
\* file, without duplicates.
C10_FlattenedIsUnion ==
  /\ Written(options.classesFromTemplatesFlattenedFileName) =>
       LET flattened == dir.files[options.classesFromTemplatesFlattenedFileName].value
       IN  /\ NoDuplicates(flattened)
           /\ Range(flattened)
                = UNION {Range(extractClassesFromTemplate(f.content)) :
                           f \in RecordedFiles(templateFiles, templateClasses)}
  /\ Written(options.classesFromCssFlattenedFileName) =>
       LET flattened == dir.files[options.classesFromCssFlattenedFileName].value
       IN  /\ NoDuplicates(flattened)
           /\ Range(flattened)
                = UNION {Range(extractClassesFromCss(f.content, "classes").items) :
                           f \in RecordedFiles(cssFiles, cssSelectors)}

(***************************************************************************)
(* The reconciliation on its own: getUnusedCssClasses at the end of a run  *)
(* of one template and one stylesheet                                      *)
(***************************************************************************)

\* The longest list of classes the template or the stylesheet holds.
MaxListLen == 2

Str_baz == <<"b", "a", "z">>

Str_js_a == <<"j", "s", "-", "a">>

Str_js_b == <<"j", "s", "-", "b">>

DiffClasses == {Str_foo, Str_bar, Str_baz, Str_js_a, Str_js_b}

ClassLists == {q \in AllSeqs(DiffClasses, MaxListLen) : NoDuplicates(q)}

\* /^js-/, the same with the g and with the y flag, /a/ and /a/g, and a list
\* of two patterns.
DiffIgnoreLists ==
  {<<>>, <<JsPrefix("")>>, <<JsPrefix("g")>>, <<JsPrefix("y")>>,
   <<[anchored |-> FALSE, text |-> <<"a">>, flags |-> ""]>>,
   <<[anchored |-> FALSE, text |-> <<"a">>, flags |-> "g"]>>,
   <<[anchored |-> TRUE, text |-> <<"f">>, flags |-> ""], JsPrefix("g")>>}

\* <a class="c1 c2">
templateOf(classes) ==
  <<"<", "a", " ", "c", "l", "a", "s", "s", "=", "\"">> \o join(classes, <<" ">>) \o <<"\"", ">">>

\* .c1{}.c2{}
stylesheetOf(classes) ==
  Flatten([k \in 1..Len(classes) |-> <<".">> \o classes[k] \o <<"{", "}">>])

OneFile(root, classes, text) ==
  TreeOf(root, IF classes = <<>> THEN <<>> ELSE <<[readable |-> TRUE, content |-> text]>>)

MissingDir(o) == [exists |-> FALSE, locked |-> FALSE, files |-> EmptyFiles(o)]

\* uncssTempDir after the two writes and the two createFlattenedClasses.
DirBeforeDiff(o, tplRecords, cssRecords) ==
  createFlattenedClasses(
    createFlattenedClasses(
      writeFile(writeFile(clearOrCreateTempDir(MissingDir(o), o),
                          o.classesFromTemplatesFileName, tplRecords),
                o.classesFromCssFileName, cssRecords),
      o.classesFromTemplatesFileName, o.classesFromTemplatesFlattenedFileName),
    o.classesFromCssFileName, o.classesFromCssFlattenedFileName)

InitDiff ==
  /\ pc = "getUnusedCssClasses"
  /\ fatal = "none"
  /\ options = DefaultOptions
  /\ ignoredClassPatterns \in DiffIgnoreLists
  /\ lastIndex = [k \in 1..Len(ignoredClassPatterns) |-> 0]
  /\ \E t \in ClassLists : twigTree = OneFile("twig", t, templateOf(t))
  /\ vueTree = TreeOf("vue", <<>>)
  /\ \E c \in ClassLists : cssTree = OneFile("css", c, stylesheetOf(c))
  /\ templateFiles = twigTree.files \o vueTree.files
  /\ cssFiles = cssTree.files
  /\ templateClasses = processTemplateFilesToExtractClasses(templateFiles).records
  /\ cssSelectors = processCssFilesToExtractClasses(cssFiles).records
  /\ logged = <<>>
  /\ dir = DirBeforeDiff(options, templateClasses, cssSelectors)
  /\ NoDirectCall

\* The diff computed once more on the same flattened files with the same
\* pattern objects (a second call with the same options in one process).
GetUnusedCssClassesAgain ==
  /\ pc = "done"
  /\ LET r == getUnusedCssClasses(dir, options, ignoredClassPatterns, lastIndex)
     IN  dir' = r.dir /\ lastIndex' = r.lastIndex
  /\ pc' = "doneAgain"
  /\ UNCHANGED <<fatal, options, ignoredClassPatterns, twigTree, vueTree, cssTree,
                 templateFiles, cssFiles, templateClasses, cssSelectors, logged,
                 input, content, option, extracted>>

NextDiff == GetUnusedCssClasses \/ GetUnusedCssClassesAgain

SpecDiff == InitDiff /\ [][NextDiff]_vars

(***************************************************************************)
(* Claims about getUnusedCssClasses (checked under SpecDiff)               *)
(***************************************************************************)

FlattenedTemplateClasses == dir.files[options.classesFromTemplatesFlattenedFileName].value

FlattenedCssClasses == dir.files[options.classesFromCssFlattenedFileName].value

Report == dir.files[options.outputFile].value

Unused(list, other) ==
  SelectSeq(list, LAMBDA cls : cls \notin Range(other) /\ ~MatchesAny(ignoredClassPatterns, cls))

\* C1: the report lists, in the order of cssClasses, exactly the elements of
\* cssClasses that are not in templateClasses and are matched by no ignore
\* pattern, and exactly the elements of templateClasses that are not in
\* cssClasses and are matched by no ignore pattern.
C1_ReportIsTheDiff ==
  pc = "done" =>
    /\ Report.cssClassesNotFoundInTemplates
         = Unused(FlattenedCssClasses, FlattenedTemplateClasses)
    /\ Range(Report.templateClassesNotFoundInCss)
         = Range(Unused(FlattenedTemplateClasses, FlattenedCssClasses))

\* C2: a class name matched by at least one pattern of the ignore list is in
\* neither list of the report, whatever flags the patterns carry and
\* whatever was tested against them before.
C2_IgnoredNeverReported ==
  pc = "done" =>
    \A cls \in Range(Report.cssClassesNotFoundInTemplates)
               \cup Range(Report.templateClassesNotFoundInCss) :
      ~MatchesAny(ignoredClassPatterns, cls)

(***************************************************************************)
(* Claims about createFlattenedClasses and the ignore list in a run        *)
(* (checked under Spec)                                                    *)
(***************************************************************************)

\* The lists that hold the elements of q in another order.
Reorderings(q) ==
  {[k \in 1..Len(q) |-> q[p[k]]] :
     p \in {f \in [1..Len(q) -> 1..Len(q)] : \A i, j \in 1..Len(q) : f[i] = f[j] => i = j}}

\* What createFlattenedClasses writes when the record file holds records.
FlattenedOf(records, inputFileName, outputFileName) ==
  createFlattenedClasses(writeFile(dir, inputFileName, records),
                         inputFileName, outputFileName).files[outputFileName].value

FlattenIgnoresOrder(inputFileName, outputFileName) ==
  Written(outputFileName) =>
    LET records == dir.files[inputFileName].value
        flattened == dir.files[outputFileName].value
    IN  /\ FlattenedOf(records, inputFileName, outputFileName) = flattened
        /\ \A permuted \in Reorderings(records) :
              Range(FlattenedOf(permuted, inputFileName, outputFileName)) = Range(flattened)

\* C11: createFlattenedClasses gives the same flattened set for every
\* permutation of the record list, and the same output when the same record
\* list is flattened again.
C11_FlattenIgnoresOrder ==
  /\ FlattenIgnoresOrder(options.classesFromTemplatesFileName,
                         options.classesFromTemplatesFlattenedFileName)
  /\ FlattenIgnoresOrder(options.classesFromCssFileName,
                         options.classesFromCssFlattenedFileName)

\* Both flattened files are written, and another order of the stylesheet
\* records gives another order of the written list.
C11_Witness ==
  /\ Written(options.classesFromTemplatesFlattenedFileName)
  /\ Written(options.classesFromCssFlattenedFileName)
  /\ templateClasses # <<>>
  /\ \E permuted \in Reorderings(cssSelectors) :
        FlattenedOf(permuted, options.classesFromCssFileName,
                    options.classesFromCssFlattenedFileName)
          # dir.files[options.classesFromCssFlattenedFileName].value

(***************************************************************************)
(* Further claims about getUnusedCssClasses (checked under SpecDiff)       *)
(***************************************************************************)

\* C12: no class that is in both templateClasses and cssClasses is in either
\* list of the report, and the two lists of the report share no element.
C12_CommonClassesNeverReported ==
  pc = "done" =>
    LET common == Range(FlattenedTemplateClasses) \cap Range(FlattenedCssClasses)
        css == Range(Report.cssClassesNotFoundInTemplates)
        tpl == Range(Report.templateClassesNotFoundInCss)
    IN  /\ common \cap (css \cup tpl) = {}
        /\ css \cap tpl = {}

\* The diff was computed for two sets that share a class and each hold a
\* class of their own, which the report lists.
C12_Witness ==
  /\ pc = "done"
  /\ Range(FlattenedTemplateClasses) \cap Range(FlattenedCssClasses) # {}
  /\ Report.cssClassesNotFoundInTemplates # <<>>
  /\ Report.templateClassesNotFoundInCss # <<>>

(***************************************************************************)
(* Claims about the ignore list in a run (checked under Spec)              *)
(***************************************************************************)

IntermediateNames(o) == ArtifactNames(o) \ {o.outputFile}

\* uncssTempDir before the diff in the run on the same input files whose
\* ignore list is empty: nothing before getUnusedCssClasses takes the list.
DirOfRunWithoutIgnoreList ==
  DirBeforeDiff(options,
                processTemplateFilesToExtractClasses(templateFiles).records,
                processCssFilesToExtractClasses(cssFiles).records)

ExtractedFrom(files, records, kind) ==
  UNION {Range(extractorFn(f.content, kind).items) : f \in RecordedFiles(files, records)}

\* C13: the ignore list has no part in extraction or flattening: the
\* records and both flattened sets are those of the run with an empty ignore
\* list, and a class the list matches that was extracted from a recorded
\* file is in the flattened set of its side.
C13_IgnoreListLeavesExtractionAlone ==
  /\ TemplatesProcessed =>
       templateClasses = processTemplateFilesToExtractClasses(templateFiles).records
  /\ CssProcessed =>
       cssSelectors = processCssFilesToExtractClasses(cssFiles).records
  /\ pc \in {"getUnusedCssClasses", "done"} =>
       /\ \A n \in IntermediateNames(options) :
             dir.files[n] = DirOfRunWithoutIgnoreList.files[n]
       /\ \A cls \in ExtractedFrom(templateFiles, templateClasses, "template") :
             MatchesAny(ignoredClassPatterns, cls) => cls \in Range(FlattenedTemplateClasses)
       /\ \A cls \in ExtractedFrom(cssFiles, cssSelectors, "css") :
             MatchesAny(ignoredClassPatterns, cls) => cls \in Range(FlattenedCssClasses)

\* A finished run whose templates hold a class the ignore list matches and
\* no stylesheet holds: it is in the flattened set and not in the report.
C13_Witness ==
  /\ pc = "done"
  /\ \E cls \in Range(FlattenedTemplateClasses) \ Range(FlattenedCssClasses) :
        /\ MatchesAny(ignoredClassPatterns, cls)
        /\ cls \notin Range(Report.templateClassesNotFoundInCss)

(***************************************************************************)
(* Further claims about extractClassesFromTemplate (checked under          *)
(* SpecTemplate)                                                           *)
(***************************************************************************)

\* C14: extractClassesFromTemplate returns a list without duplicates whose
\* every element is a ClassName (matches ^-?[A-Za-z_][A-Za-z0-9_-]*$).
C14_ReturnsClassNames ==
  Returned =>
    /\ ~extracted.threw
    /\ NoDuplicates(extracted.items)
    /\ \A cls \in Classes : IsIdentifier(cls)

\* C19: for an interpolation with a ternary inside a static class attribute,
\* every quoted literal of the expression gives its tokens to the result,
\* also when the expression holds more than one ':' or a literal holds ':'.
C19_InterpolationKeepsEveryLiteral ==
  (Returned /\ input.family = "interp") =>
    \A k \in 1..Len(input.parts) : Tokens(input.parts[k][1]) \subseteq Classes

\* The same binding without the whitespace inside the quotes.
Unpadded(in) == Render(In("expr", in.prefix, in.quote, in.value, <<>>))

\* C20: whitespace added before and after a :class binding value inside the
\* quotes does not change the set of classes the extractor returns for it.
C20_PaddingChangesNothing ==
  (Returned /\ input.family = "padded") =>
    Classes = Range(extractClassesFromTemplate(Unpadded(input)))

(***************************************************************************)
(* Further claims about extractClassesFromCss (checked under SpecCss)      *)
(***************************************************************************)

\* C15: with an extractOnly value other than 'classes' or 'selectors' the
\* call fails whatever the content holds and returns no items; with
\* 'classes', 'selectors' or no option it does not fail.
C15_InvalidOptionFails ==
  Returned =>
    IF option \in {"classes", "selectors", "undefined"}
    THEN ~extracted.threw
    ELSE extracted.threw /\ extracted.items = <<>>

\* A call with another extractOnly value on a content that holds a class
\* selector has failed.
C15_Witness ==
  /\ Returned
  /\ option \notin {"classes", "selectors", "undefined"}
  /\ DottedIdentifiers(content) # {}
  /\ extracted.threw

\* The report of the diff on the flattened files with every pattern object
\* as it was created (lastIndex 0).
FirstReport ==
  diffReportOf(FlattenedTemplateClasses, FlattenedCssClasses, ignoredClassPatterns,
               [k \in 1..Len(ignoredClassPatterns) |-> 0]).diffReport

\* C16: computing the diff leaves the two class sets and every pattern
\* object, its lastIndex included, as they were, and computing it once more
\* with the same sets and pattern objects gives the same report.
C16_DiffLeavesInputsAlone ==
  pc \in {"done", "doneAgain"} =>
    /\ FlattenedTemplateClasses = flattenItems(templateClasses)
    /\ FlattenedCssClasses = flattenItems(cssSelectors)
    /\ \A k \in 1..Len(ignoredClassPatterns) : lastIndex[k] = 0
    /\ Report = FirstReport

(***************************************************************************)
(* Claims about the order of the steps of a run (checked under Spec)       *)
(***************************************************************************)

WrittenNames == {n \in ArtifactNames(options) : Written(n)}

\* What the directory shows of the order of the steps.
StepsInOrder ==
  /\ WrittenNames # {} =>
       /\ pc # "clearOrCreateTempDir"
       /\ fatal # "clearOrCreateTempDir"
       /\ \A n \in ArtifactNames(options) : dir.files[n].present => Written(n)
  /\ \A flat \in {options.classesFromTemplatesFlattenedFileName,
                  options.classesFromCssFlattenedFileName} :
       Written(flat) => /\ Written(options.classesFromTemplatesFileName)
                        /\ Written(options.classesFromCssFileName)
  /\ Written(options.classesFromTemplatesFlattenedFileName) =>
       /\ dir.files[options.classesFromTemplatesFileName].value = templateClasses
       /\ FlattenedTemplateClasses = flattenItems(templateClasses)
  /\ Written(options.classesFromCssFlattenedFileName) =>
       /\ dir.files[options.classesFromCssFileName].value = cssSelectors
       /\ FlattenedCssClasses = flattenItems(cssSelectors)
  /\ Written(options.outputFile) =>
       /\ Written(options.classesFromTemplatesFlattenedFileName)
       /\ Written(options.classesFromCssFlattenedFileName)

\* C17: with pairwise distinct artifact names, the directory is cleared or
\* created before anything is written, both record lists are written before
\* either is flattened, each flattened set comes from the record list of its
\* own side as this run wrote it, both flattened sets are written before the
\* diff, and once the report is written the run has ended.
C17_StepsInOrder ==
  Cardinality(ArtifactNames(options)) = 5 =>
    /\ StepsInOrder
    /\ Written(options.outputFile) => pc = "done"

\* A finished run on templates and stylesheets with classes: all five
\* artifacts were written by it.
C17_Witness ==
  /\ pc = "done"
  /\ WrittenNames = ArtifactNames(options)
  /\ FlattenedTemplateClasses # <<>>
  /\ FlattenedCssClasses # <<>>

(***************************************************************************)
(* Claims about the persisted record lists (checked under Spec)            *)
(***************************************************************************)

RecordsOf(path, records) == {k \in 1..Len(records) : records[k].path = path}

OneRecordPerFile(files, kind, name) ==
  Written(name) =>
    \A i \in 1..Len(files) :
      (files[i].readable /\ ~extractorFn(files[i].content, kind).threw)
        => Cardinality(RecordsOf(files[i].path, dir.files[name].value)) = 1

\* C18: every template or CSS file that was read and extracted without error
\* has exactly one record with its path in the persisted record list, a file
\* without any class included.
C18_OneRecordPerFile ==
  /\ OneRecordPerFile(templateFiles, "template", options.classesFromTemplatesFileName)
  /\ OneRecordPerFile(cssFiles, "css", options.classesFromCssFileName)

(***************************************************************************)
(* Claims about URL stripping (checked under SpecCss)                      *)
(***************************************************************************)

Str_i == <<"i">>

Str_t == <<"t">>

\* C21: URL stripping removes only the background / background-image
\* declaration that holds the url(...) and the url(...) text itself: the
\* class selectors outside the declaration (.i before it, .t of the rule
\* after it) are returned, also when the declaration is the last of its
\* block and has no terminating semicolon.
C21_SelectorsOutsideSurvive ==
  (Returned /\ input.family = "url" /\ ClassesMode) =>
    {Str_i, Str_t} \subseteq Range(extracted.items)

(***************************************************************************)
(* Claims about what a run leaves in uncssTempDir (checked under Spec)     *)
(***************************************************************************)

RunEnded == pc \in {"done", "aborted"}

\* The report of the diff of this run's input files, the pattern objects as
\* they were when the run began.
ReportOfThisRun ==
  diffReportOf(flattenItems(RecordsOfSucceeded(templateFiles, "template")),
               flattenItems(RecordsOfSucceeded(cssFiles, "css")),
               ignoredClassPatterns,
               [k \in 1..Len(ignoredClassPatterns) |-> 0]).diffReport

\* C22: when a run has ended, completed or aborted by a fatal error, the
\* output directory holds no report and no intermediate artifact of an
\* earlier run, and a report that is there is the one of this run's inputs.
C22_NothingOfEarlierRuns ==
  RunEnded =>
    /\ \A n \in ArtifactNames(options) : dir.files[n].present => Written(n)
    /\ Written(options.outputFile) => Report = ReportOfThisRun

=============================================================================
